---------------------------- MODULE Spec2Model ----------------------------
(***************************************************************************)
(* target-sherpaan: the SOAP transaction engine of the purchase-order      *)
(* sink.  A record is realised as two SOAP calls (AddOrderedPurchase, then  *)
(* ChangePurchase2) sent through SherpaClient.call_soap_service, which is   *)
(* retried by tenacity.                                                     *)
(*                                                                          *)
(* Text is modelled as a sequence of one-character strings, so that         *)
(* escaping, digit tests and str() are computed character by character.     *)
(* Element and key names are sequences of words ("Response", "Value"), so   *)
(* that `"Response" in key` and key.endswith("Response") are computed.      *)
(***************************************************************************)
EXTENDS Integers, Sequences, FiniteSets, TLC

(***************************************************************************)
(* Bounds of the model.                                                     *)
(***************************************************************************)
\* records per batch
MaxBatch == 2
\* line items per literal or decoded list
MaxLines == 2
\* length of the free text drawn for one interpolated value
MaxStrLen == 2

(***************************************************************************)
(* Python text helpers.                                                     *)
(***************************************************************************)
Digits == <<"0", "1", "2", "3", "4", "5", "6", "7", "8", "9">>

DigitChars == {Digits[i] : i \in 1..10}

\* str.isdigit(): non-empty and every character a digit
isdigit(s) == Len(s) > 0 /\ \A i \in 1..Len(s) : s[i] \in DigitChars

\* str(n) for a non-negative int
RECURSIVE str_int(_)
str_int(n) ==
    IF n < 10 THEN <<Digits[n + 1]>>
    ELSE str_int(n \div 10) \o <<Digits[(n % 10) + 1]>>

\* str.replace(old, new) for a one-character old
RECURSIVE replace(_, _, _)
replace(s, old, new) ==
    IF s = <<>> THEN <<>>
    ELSE (IF Head(s) = old THEN new ELSE <<Head(s)>>) \o replace(Tail(s), old, new)

\* xml.sax.saxutils.escape(data) with no extra entities: "&" first, then
\* ">" and "<".  Quotes are left as they are.
escape_no_amp(data) ==
    replace(replace(data, ">", <<"&", "g", "t", ";">>),
            "<", <<"&", "l", "t", ";">>)

escape(data) ==
    replace(replace(replace(data, "&", <<"&", "a", "m", "p", ";">>),
                    ">", <<"&", "g", "t", ";">>),
            "<", <<"&", "l", "t", ";">>)

(***************************************************************************)
(* Parsed XML (the mappings xmltodict.parse returns) and Python values.    *)
(* A value is a string, a mapping or None.  A mapping keeps its items in    *)
(* document order, as a Python dict does.                                   *)
(***************************************************************************)
Str(s) == [t |-> "str", s |-> s, items |-> <<>>, n |-> 0]

Dict(items) == [t |-> "dict", s |-> <<>>, items |-> items, n |-> 0]

None == [t |-> "none", s |-> <<>>, items |-> <<>>, n |-> 0]

\* a non-negative number
Num(n) == [t |-> "num", s |-> <<>>, items |-> <<>>, n |-> n]

Item(k, v) == [k |-> k, v |-> v]

RECURSIVE list_items(_)
list_items(elems) ==
    IF elems = <<>> THEN <<>>
    ELSE <<Item(<<>>, Head(elems))>> \o list_items(Tail(elems))

\* a list: its elements in order (the keys are unused)
List(elems) == [t |-> "list", s |-> <<>>, items |-> list_items(elems), n |-> 0]

\* a truthy value that is no string, number, list or mapping of the above
\* (a nested list, a datetime, ...), known by the text str() makes of it
Obj(s) == [t |-> "obj", s |-> s, items |-> <<>>, n |-> 0]

\* a string holding JSON text, known by the value json.loads makes of it
JsonStr(v) == [t |-> "json", s |-> <<>>, items |-> <<Item(<<>>, v)>>, n |-> 0]

\* a non-empty string that is not JSON: json.loads raises JSONDecodeError
BadJsonStr == [t |-> "json", s |-> <<>>, items |-> <<>>, n |-> 0]

\* what xmltodict.parse does on text that is not well-formed XML: it raises
NotXml == [t |-> "error", s |-> <<>>, items |-> <<>>, n |-> 0]

\* Python truthiness: bool(value)
truthy(v) ==
    CASE v.t = "str" -> v.s # <<>>
      [] v.t = "dict" -> v.items # <<>>
      [] v.t = "list" -> v.items # <<>>
      [] v.t = "num" -> v.n # 0
      \* a string of JSON text is never the empty string
      [] v.t = "json" -> TRUE
      [] v.t = "obj" -> TRUE
      [] OTHER -> FALSE

\* isinstance(value, str)
is_str(v) == v.t \in {"str", "json"}

\* key in mapping
has_key(d, k) == \E i \in 1..Len(d.items) : d.items[i].k = k

\* mapping[key] of a key the mapping holds
get(d, k) ==
    d.items[CHOOSE i \in 1..Len(d.items) :
                /\ d.items[i].k = k
                /\ \A j \in 1..(i - 1) : d.items[j].k # k].v

\* mapping.get(key, default)
get_or(d, k, default) == IF has_key(d, k) THEN get(d, k) ELSE default

\* "Response" in key  (key.endswith("Response") implies it)
contains_word(key, w) == \E i \in 1..Len(key) : key[i] = w

endswith_word(key, w) == Len(key) > 0 /\ key[Len(key)] = w

\* str(value) of a value that is a string, or the repr of a mapping: a text
\* in braces, which is never all digits
str_value(v) ==
    CASE v.t = "str" -> v.s
      [] v.t = "obj" -> v.s
      [] v.t = "num" -> str_int(v.n)
      [] v.t = "dict" -> <<"{", "}">>
      [] v.t = "list" -> <<"[", "]">>
      [] OTHER -> <<"N", "o", "n", "e">>

K_Result == <<"Result">>
K_ResponseValue == <<"Response", "Value">>
K_ResponseTime == <<"Response", "Time">>
K_raw_response == <<"raw_response">>

EnvelopeKeys == << <<"soap:Envelope">>, <<"soap12:Envelope">>, <<"Envelope">> >>

BodyKeys == << <<"soap:Body">>, <<"soap12:Body">>, <<"Body">> >>

\* {"raw_response": xml_response}
raw_result(text) == Dict(<<Item(K_raw_response, Str(text))>>)

(***************************************************************************)
(* SherpaClient._parse_soap_response                                        *)
(***************************************************************************)
\* the inner loop over the body aliases: the first alias the envelope holds
RECURSIVE find_body_in(_, _)
find_body_in(envelope, j) ==
    IF j > Len(BodyKeys) THEN None
    ELSE IF has_key(envelope, BodyKeys[j]) THEN get(envelope, BodyKeys[j])
    ELSE find_body_in(envelope, j + 1)

\* the outer loop over the envelope aliases.  An envelope that is no mapping
\* (None or text) makes `body_key in envelope` or `envelope[body_key]` raise,
\* or holds no body: the result is NotXml, the exception the handler catches.
RECURSIVE find_soap_body(_, _)
find_soap_body(xml_dict, i) ==
    IF i > Len(EnvelopeKeys) THEN None
    ELSE IF has_key(xml_dict, EnvelopeKeys[i])
    THEN LET envelope == get(xml_dict, EnvelopeKeys[i])
         IN  IF envelope.t # "dict" THEN NotXml
             ELSE LET soap_body == find_body_in(envelope, 1)
                  IN  IF truthy(soap_body) THEN soap_body
                      ELSE find_soap_body(xml_dict, i + 1)
    ELSE find_soap_body(xml_dict, i + 1)

\* the scan of the body's children, in document order, with its breaks
RECURSIVE find_response_data(_, _)
find_response_data(soap_body, i) ==
    IF i > Len(soap_body.items) THEN None
    ELSE LET key == soap_body.items[i].k
             value == soap_body.items[i].v
         IN  IF value.t = "dict" /\ has_key(value, K_Result)
                 THEN get(value, K_Result)
             ELSE IF value.t = "dict" /\ has_key(value, K_ResponseValue)
                 THEN get(value, K_ResponseValue)
             ELSE IF value.t = "dict"
                     /\ (endswith_word(key, "Response") \/ contains_word(key, "Response"))
                 THEN value
             ELSE find_response_data(soap_body, i + 1)

\* xml_response is the pair of the payload text and what xmltodict.parse
\* makes of it
parse_soap_response(xml_response) ==
    IF xml_response.xml.t # "dict" THEN raw_result(xml_response.text)
    ELSE LET soap_body == find_soap_body(xml_response.xml, 1)
         IN  IF soap_body.t = "error" THEN raw_result(xml_response.text)
             ELSE IF ~truthy(soap_body) THEN raw_result(xml_response.text)
             \* soap_body.items() on a text body raises: caught
             ELSE IF soap_body.t # "dict" THEN raw_result(xml_response.text)
             ELSE LET response_data == find_response_data(soap_body, 1)
                  IN  IF truthy(response_data) THEN response_data
                      ELSE soap_body

(***************************************************************************)
(* PurchaseOrderSink._extract_purchase_order_number                         *)
(***************************************************************************)
OrderNumberKeys ==
    << <<"Purchase", "Order", "Number">>, <<"purchase", "Order", "Number">>,
       <<"Purchase", "Number">>, <<"purchase", "Number">>,
       <<"Order", "Number">>, <<"order", "Number">>, K_ResponseValue >>

\* second loop: the fixed list of field names, directly in the mapping
RECURSIVE extract_by_name(_, _)
extract_by_name(response, i) ==
    IF i > Len(OrderNumberKeys) THEN None
    ELSE IF has_key(response, OrderNumberKeys[i])
            /\ truthy(get(response, OrderNumberKeys[i]))
            /\ isdigit(str_value(get(response, OrderNumberKeys[i])))
        THEN Str(str_value(get(response, OrderNumberKeys[i])))
    ELSE extract_by_name(response, i + 1)

\* last resort: any all-digit text value whose key is not ResponseTime
RECURSIVE extract_any_numeric(_, _)
extract_any_numeric(response, i) ==
    IF i > Len(response.items) THEN None
    ELSE IF response.items[i].k # K_ResponseTime
            /\ response.items[i].v.t = "str"
            /\ isdigit(response.items[i].v.s)
        THEN response.items[i].v
    ELSE extract_any_numeric(response, i + 1)

RECURSIVE extract_purchase_order_number(_)
RECURSIVE extract_nested(_, _)
\* first loop: a ResponseValue inside a nested mapping, else recurse into it
extract_nested(response, i) ==
    IF i > Len(response.items) THEN None
    ELSE LET value == response.items[i].v
         IN  IF value.t = "dict"
             THEN IF has_key(value, K_ResponseValue) /\ truthy(get(value, K_ResponseValue))
                  THEN Str(str_value(get(value, K_ResponseValue)))
                  ELSE LET result == extract_purchase_order_number(value)
                       IN  IF truthy(result) THEN result
                           ELSE extract_nested(response, i + 1)
             ELSE extract_nested(response, i + 1)

extract_purchase_order_number(response) ==
    IF response.t # "dict" THEN None
    ELSE LET nested == extract_nested(response, 1)
         IN  IF truthy(nested) THEN nested
             ELSE LET named == extract_by_name(response, 1)
                  IN  IF truthy(named) THEN named
                      ELSE extract_any_numeric(response, 1)

(***************************************************************************)
(* The expected date (_build_change_purchase2_envelope, the part before     *)
(* the lines): re.match, datetime.fromisoformat and strftime on text.       *)
(* An instant is [Y, M, D, h, m, s].                                        *)
(***************************************************************************)
digit_value(c) == CHOOSE d \in 0..9 : Digits[d + 1] = c

is_digit_at(s, i) == i >= 1 /\ i <= Len(s) /\ s[i] \in DigitChars

is_char_at(s, i, c) == i >= 1 /\ i <= Len(s) /\ s[i] = c

num2(s, i) == 10 * digit_value(s[i]) + digit_value(s[i + 1])

num4(s, i) == 100 * num2(s, i) + num2(s, i + 2)

pad2(n) == <<Digits[(n \div 10) + 1], Digits[(n % 10) + 1]>>

pad4(n) == pad2(n \div 100) \o pad2(n % 100)

is_leap(y) == (y % 4 = 0 /\ y % 100 # 0) \/ y % 400 = 0

days_in_month(y, m) ==
    IF m = 2 THEN (IF is_leap(y) THEN 29 ELSE 28)
    ELSE IF m \in {4, 6, 9, 11} THEN 30 ELSE 31

\* \d{4}-\d{2}-\d{2} at position i
date_shape(s, i) ==
    /\ \A j \in {0, 1, 2, 3, 5, 6, 8, 9} : is_digit_at(s, i + j)
    /\ is_char_at(s, i + 4, "-") /\ is_char_at(s, i + 7, "-")

\* \d{2}:\d{2} at position i
hhmm_shape(s, i) ==
    /\ \A j \in {0, 1, 3, 4} : is_digit_at(s, i + j)
    /\ is_char_at(s, i + 2, ":")

\* \d{2}:\d{2}:\d{2} at position i
time_shape(s, i) ==
    /\ hhmm_shape(s, i)
    /\ is_char_at(s, i + 5, ":") /\ is_digit_at(s, i + 6) /\ is_digit_at(s, i + 7)

\* [+-]\d{2}:\d{2} at position i
offset_shape(s, i) ==
    /\ (is_char_at(s, i, "+") \/ is_char_at(s, i, "-"))
    /\ hhmm_shape(s, i + 1)

\* the last position of the greedy \d+ that starts at i (i - 1 when none)
RECURSIVE digits_end(_, _)
digits_end(s, i) == IF is_digit_at(s, i) THEN digits_end(s, i + 1) ELSE i - 1

\* re.match(pattern, created_at): anchored at the start only
pattern_matches(s) ==
    /\ date_shape(s, 1) /\ is_char_at(s, 11, "T") /\ time_shape(s, 12)
    /\ is_char_at(s, 20, ".") /\ is_digit_at(s, 21)

\* match.group(3) or "": the offset right after the fraction, if any
match_timezone(s) ==
    LET e == digits_end(s, 21)
    IN  IF is_char_at(s, e + 1, "Z") THEN <<"Z">>
        ELSE IF offset_shape(s, e + 1) THEN SubSeq(s, e + 1, e + 6)
        ELSE <<>>

\* microseconds[:3].ljust(3, "0")
fractional(s) ==
    LET e == digits_end(s, 21)
        three == SubSeq(s, 21, IF e > 23 THEN 23 ELSE e)
    IN  three \o SubSeq(<<"0", "0", "0">>, 1, 3 - Len(three))

\* the text handed to datetime.fromisoformat
date_str_of(s) ==
    IF pattern_matches(s)
    THEN replace(SubSeq(s, 1, 19) \o <<".">> \o fractional(s) \o match_timezone(s),
                 "Z", <<"+", "0", "0", ":", "0", "0">>)
    ELSE replace(s, "Z", <<"+", "0", "0", ":", "0", "0">>)

\* the calendar and clock ranges datetime accepts
valid_date_at(s, i) ==
    /\ num4(s, i) >= 1
    /\ num2(s, i + 5) \in 1..12
    /\ num2(s, i + 8) >= 1
    /\ num2(s, i + 8) <= days_in_month(num4(s, i), num2(s, i + 5))

valid_offset_at(s, i) ==
    offset_shape(s, i) /\ num2(s, i + 1) <= 23 /\ num2(s, i + 4) <= 59

\* the tail after HH:MM:SS: nothing, .fff, .ffffff, each with or without an
\* offset
valid_time_tail(s, i) ==
    LET e == digits_end(s, i + 1)
        after == IF is_char_at(s, i, ".") THEN e + 1 ELSE i
    IN  /\ is_char_at(s, i, ".") => (e - i) \in {3, 6}
        /\ \/ after = Len(s) + 1
           \/ valid_offset_at(s, after) /\ Len(s) = after + 5

\* datetime.fromisoformat(date_str) succeeds: YYYY-MM-DD, alone or followed
\* by any one separator character and HH:MM:SS with the tail above.  (The
\* forms HH and HH:MM and the forms only Python 3.11+ reads are not drawn
\* as inputs.)
fromisoformat_ok(s) ==
    /\ date_shape(s, 1) /\ valid_date_at(s, 1)
    /\ \/ Len(s) = 10
       \/ /\ Len(s) >= 19
          /\ time_shape(s, 12)
          /\ num2(s, 12) <= 23 /\ num2(s, 15) <= 59 /\ num2(s, 18) <= 59
          /\ valid_time_tail(s, 20)

\* the instant datetime.fromisoformat(date_str) returns (the offset does not
\* change the wall-clock fields)
fromisoformat(s) ==
    [Y |-> num4(s, 1), M |-> num2(s, 6), D |-> num2(s, 9),
     h |-> IF Len(s) >= 19 THEN num2(s, 12) ELSE 0,
     m |-> IF Len(s) >= 19 THEN num2(s, 15) ELSE 0,
     s |-> IF Len(s) >= 19 THEN num2(s, 18) ELSE 0]

\* dt.strftime("%Y-%m-%dT%H:%M:%S.000"), for a year of four digits
strftime(dt) ==
    pad4(dt.Y) \o <<"-">> \o pad2(dt.M) \o <<"-">> \o pad2(dt.D) \o <<"T">>
    \o pad2(dt.h) \o <<":">> \o pad2(dt.m) \o <<":">> \o pad2(dt.s)
    \o <<".", "0", "0", "0">>

\* dt + timedelta(days=n)
RECURSIVE add_days(_, _)
add_days(dt, n) ==
    IF dt.D + n <= days_in_month(dt.Y, dt.M) THEN [dt EXCEPT !.D = dt.D + n]
    ELSE add_days([dt EXCEPT !.D = 0,
                            !.M = IF dt.M = 12 THEN 1 ELSE dt.M + 1,
                            !.Y = IF dt.M = 12 THEN dt.Y + 1 ELSE dt.Y],
                  dt.D + n - days_in_month(dt.Y, dt.M))

DefaultDays == 30

\* (datetime.now() + timedelta(days=30)).strftime(...)
default_date(now) == Str(strftime(add_days(now, DefaultDays)))

\* formatted_date: the value interpolated as ExpectedDate
format_expected_date(created_at, now) ==
    IF ~truthy(created_at) THEN default_date(now)
    ELSE IF created_at.t = "str"
    THEN IF fromisoformat_ok(date_str_of(created_at.s))
         THEN Str(strftime(fromisoformat(date_str_of(created_at.s))))
         ELSE default_date(now)
    ELSE created_at

(***************************************************************************)
(* The SOAP envelopes.  An envelope is the record of its elements' text, in *)
(* the template's order; purchaseLines holds one record per                 *)
(* <ChangePurchaseLine> block.                                              *)
(***************************************************************************)
K_security_code == <<"security_code">>
K_export_buyOrder_warehouse == <<"export_buyOrder_warehouse">>
K_supplier_remoteId == <<"supplier_remoteId">>
K_id == <<"id">>
K_warehouse_code == <<"warehouse_code">>
K_line_items == <<"line_items">>
K_created_at == <<"created_at">>
K_product_remoteId == <<"product_remoteId">>
K_supplier_item_code == <<"supplier_item_code">>
K_quantity == <<"quantity">>

\* PurchaseOrderSink._build_add_ordered_purchase_envelope
build_add_ordered_purchase_envelope(cfg, supplier_code, reference, warehouse_code) ==
    [service |-> "AddOrderedPurchase",
     securityCode |-> escape(str_value(get(cfg, K_security_code))),
     supplierCode |-> escape(str_value(supplier_code)),
     reference |-> escape(str_value(reference)),
     warehouseCode |-> escape(str_value(warehouse_code))]

\* one <ChangePurchaseLine> block of _build_change_purchase2_envelope
change_purchase_line(line, formatted_date) ==
    LET item_code_for_soap == get_or(line, K_product_remoteId, Str(<<>>))
        supplier_item_code_for_soap ==
            get_or(line, K_supplier_item_code, item_code_for_soap)
        quantity_ordered_for_soap == get_or(line, K_quantity, Num(0))
    IN  [ItemCode |-> escape(str_value(item_code_for_soap)),
         SupplierItemCode |-> escape(str_value(supplier_item_code_for_soap)),
         QuantityOrdered |-> escape(str_value(quantity_ordered_for_soap)),
         ExpectedDate |-> escape(str_value(formatted_date))]

\* the loop with each block put in front of the ones before it
RECURSIVE purchase_lines_prepended(_, _, _)
purchase_lines_prepended(line_items, i, formatted_date) ==
    IF i > Len(line_items.items) THEN <<>>
    ELSE purchase_lines_prepended(line_items, i + 1, formatted_date)
         \o <<change_purchase_line(line_items.items[i].v, formatted_date)>>

\* the loop over line_items, in input order
RECURSIVE purchase_lines_xml(_, _, _)
purchase_lines_xml(line_items, i, formatted_date) ==
    IF i > Len(line_items.items) THEN <<>>
    ELSE <<change_purchase_line(line_items.items[i].v, formatted_date)>>
         \o purchase_lines_xml(line_items, i + 1, formatted_date)

\* `for line in line_items: line.get(...)` raises unless line_items is a list
\* of mappings: a mapping yields its keys and a string its characters, which
\* have no .get, and a number is not iterable
change_envelope_raises(line_items) ==
    \/ line_items.t # "list"
    \/ \E i \in 1..Len(line_items.items) : line_items.items[i].v.t # "dict"

\* PurchaseOrderSink._build_change_purchase2_envelope, for line_items that
\* do not make it raise
build_change_purchase2_envelope(cfg, purchase_order_number, line_items, created_at, now) ==
    [service |-> "ChangePurchase2",
     securityCode |-> escape(str_value(get(cfg, K_security_code))),
     purchaseOrderNumber |-> escape(str_value(purchase_order_number)),
     purchaseLines |->
        purchase_lines_xml(line_items, 1, format_expected_date(created_at, now))]

(***************************************************************************)
(* tenacity's policy on call_soap_service and requests' status check.       *)
(***************************************************************************)
\* stop_after_attempt(3)
StopAfterAttempt == 3
\* wait_exponential(multiplier=1, min=4, max=10)
WaitMultiplier == 1
WaitMin == 4
WaitMax == 10

RECURSIVE pow2(_)
pow2(k) == IF k = 0 THEN 1 ELSE 2 * pow2(k - 1)

min_of(a, b) == IF a < b THEN a ELSE b

max_of(a, b) == IF a > b THEN a ELSE b

\* stop_after_attempt: no further attempt once this many have been made
stop_one_late(attempt_number) == attempt_number > StopAfterAttempt

stop(attempt_number) == attempt_number >= StopAfterAttempt

\* wait_exponential: the sleep after the attempt_number-th failed attempt
wait_no_min(attempt_number) ==
    min_of(WaitMultiplier * pow2(attempt_number - 1), WaitMax)

wait(attempt_number) ==
    max_of(max_of(0, WaitMin),
           min_of(WaitMultiplier * pow2(attempt_number - 1), WaitMax))

\* response.raise_for_status() raises HTTPError: a 4xx or 5xx status
raise_for_status_raises(status) == status >= 400 /\ status < 600

(***************************************************************************)
(* Inputs: configurations, records, instants and HTTP responses.            *)
(***************************************************************************)
\* the line items a batch draws from: the first leaves supplier_item_code
\* out, the second gives it
LineAt(i) ==
    CASE i = 1 -> Dict(<<Item(K_product_remoteId, Str(<<"A">>)),
                         Item(K_quantity, Num(5))>>)
      [] i = 2 -> Dict(<<Item(K_product_remoteId, Str(<<"B">>)),
                         Item(K_supplier_item_code, Str(<<"S">>)),
                         Item(K_quantity, Num(12))>>)
      [] OTHER -> Dict(<<Item(K_product_remoteId, Str(<<"C">>)),
                         Item(K_quantity, Num(0))>>)

RECURSIVE LinesUpTo(_)
LinesUpTo(n) == IF n = 0 THEN <<>> ELSE LinesUpTo(n - 1) \o <<LineAt(n)>>

\* the values of a record's line_items: literal lists, JSON text of a list,
\* of an object, of a number and of a string, text that is not JSON, and a
\* literal that is no list
LineItemsValues ==
    {List(LinesUpTo(n)) : n \in 0..MaxLines}
    \cup {JsonStr(List(LinesUpTo(n))) : n \in 0..1}
    \cup {JsonStr(Dict(<<Item(K_product_remoteId, Str(<<"A">>))>>)),
          JsonStr(Num(5)), JsonStr(Str(<<"A">>)), JsonStr(List(<<Num(5)>>)),
          BadJsonStr, Num(5)}

WarehouseValues == {Str(<<>>), Str(<<"W">>)}

mapping_with(items, k, present, v) ==
    IF present THEN items \o <<Item(k, v)>> ELSE items

\* a record with supplier_remoteId and id (the stream's schema requires
\* them), and with warehouse_code, line_items and created_at as given
Record(has_wh, wh, has_li, li, has_created, created) ==
    Dict(mapping_with(
            mapping_with(
                mapping_with(<<Item(K_supplier_remoteId, Str(<<"S", "1">>)),
                               Item(K_id, Num(7))>>,
                             K_warehouse_code, has_wh, wh),
                K_line_items, has_li, li),
            K_created_at, has_created, created))

Configs ==
    {Dict(<<Item(K_security_code, Str(<<"k">>))>>),
     Dict(<<Item(K_security_code, Str(<<"k">>)),
            Item(K_export_buyOrder_warehouse, Str(<<"D">>))>>)}

Instants ==
    {[Y |-> 2026, M |-> 11, D |-> 3, h |-> 4, m |-> 14, s |-> 9],
     [Y |-> 2027, M |-> 12, D |-> 31, h |-> 23, m |-> 59, s |-> 59]}

\* the text of a well-formed XML document (never all digits)
XmlText == <<"<", "x", ">">>

\* a response whose payload is the XML document xmltodict reads as `root`
XmlResponse(status, root) == [status |-> status, text |-> XmlText, xml |-> root]

\* a response whose payload is not XML
TextResponse(status, text) == [status |-> status, text |-> text, xml |-> NotXml]

NoResponse == [status |-> 0, text |-> <<>>, xml |-> NotXml]

\* the items ResponseValue and ResponseTime, in either order; an absent one
\* is left out
result_fields(has_rv, rv, has_rt, rt, value_first) ==
    LET v == IF has_rv THEN <<Item(K_ResponseValue, rv)>> ELSE <<>>
        t == IF has_rt THEN <<Item(K_ResponseTime, rt)>> ELSE <<>>
    IN  IF value_first THEN v \o t ELSE t \o v

\* content inside the wrapper elements named by path, outermost first
RECURSIVE wrapped(_, _)
wrapped(path, content) ==
    IF path = <<>> THEN content
    ELSE Dict(<<Item(Head(path), wrapped(Tail(path), content))>>)

\* a SOAP document: envelope and body under the given aliases
SoapDocument(envelope_key, body_key, body) ==
    Dict(<<Item(envelope_key,
                Dict(<<Item(<<"@xmlns:soap">>, Str(<<"u">>)),
                       Item(body_key, body)>>))>>)

N_Response == <<"AddOrderedPurchase", "Response">>
N_Result == <<"AddOrderedPurchase", "Result">>

\* what the service answers AddOrderedPurchase with, when it answers: the
\* documented shape with an order number, the same with an error text and
\* with an empty element as ResponseValue, and a payload that is not XML
AddAnswers(status) ==
    {XmlResponse(status,
                 SoapDocument(<<"soap:Envelope">>, <<"soap:Body">>,
                              wrapped(<<N_Response, N_Result>>,
                                      Dict(result_fields(TRUE, rv, TRUE,
                                                         Str(<<"6", "1">>), TRUE))))) :
        rv \in {Str(<<"6", "0">>), Str(<<"E", "r">>), None}}
    \cup {TextResponse(status, <<"o", "k">>)}

\* what it answers ChangePurchase2 with
ChangeAnswers(status) ==
    {XmlResponse(status,
                 SoapDocument(<<"soap:Envelope">>, <<"soap:Body">>,
                              wrapped(<<<<"ChangePurchase2", "Response">>,
                                        <<"ChangePurchase2", "Result">>>>,
                                      Dict(result_fields(FALSE, None, TRUE,
                                                         Str(<<"6", "1">>), TRUE))))),
     TextResponse(status, <<"o", "k">>)}

Answers(service, status) ==
    IF service = "AddOrderedPurchase" THEN AddAnswers(status)
    ELSE ChangeAnswers(status)

\* the statuses a response arrives with, after requests has followed
\* redirects: 200, a final 3xx, 4xx, 5xx
Statuses == {200, 304, 404, 500}

\* datetime.now() when the ChangePurchase2 envelope is built
Now == CHOOSE now \in Instants : now.Y = 2026

(***************************************************************************)
(* PurchaseOrderSink.process_record, up to the first call.                  *)
(***************************************************************************)
\* record.get("warehouse_code") or self.config.get("export_buyOrder_warehouse")
resolve_warehouse(cfg, record) ==
    IF truthy(get_or(record, K_warehouse_code, None))
    THEN get(record, K_warehouse_code)
    ELSE get_or(cfg, K_export_buyOrder_warehouse, None)

\* json.loads(text) raises JSONDecodeError: the text is not JSON
json_loads_raises(raw) == raw.items = <<>>

json_loads(raw) == raw.items[1].v

\* line_items after lines 229-237, for a value that does not make json.loads
\* raise
parse_line_items(record) ==
    LET line_items_raw == get_or(record, K_line_items, List(<<>>))
    IN  IF is_str(line_items_raw) THEN json_loads(line_items_raw)
        ELSE IF line_items_raw.t = "list" THEN line_items_raw
        ELSE List(<<>>)

\* lines 219-243 without the empty check of lines 241-243
validate_no_skip(cfg, record) ==
    IF ~truthy(resolve_warehouse(cfg, record)) THEN "raise_warehouse"
    ELSE IF is_str(get_or(record, K_line_items, List(<<>>)))
            /\ json_loads_raises(get(record, K_line_items)) THEN "raise_json"
    ELSE "call"

\* lines 219-243 without the warehouse check of lines 225-226
validate_no_warehouse_check(cfg, record) ==
    IF is_str(get_or(record, K_line_items, List(<<>>)))
       /\ json_loads_raises(get(record, K_line_items)) THEN "raise_json"
    ELSE IF ~truthy(parse_line_items(record)) THEN "skip"
    ELSE "call"

\* how lines 219-243 end: "raise" (with the stage), "skip" or "call"
validate(cfg, record) ==
    IF ~truthy(resolve_warehouse(cfg, record)) THEN "raise_warehouse"
    ELSE IF is_str(get_or(record, K_line_items, List(<<>>)))
            /\ json_loads_raises(get(record, K_line_items)) THEN "raise_json"
    ELSE IF ~truthy(parse_line_items(record)) THEN "skip"
    ELSE "call"

\* the AddOrderedPurchase envelope of lines 249-253
add_envelope_of(cfg, record) ==
    build_add_ordered_purchase_envelope(
        cfg, get(record, K_supplier_remoteId),
        Str(str_value(get(record, K_id))), resolve_warehouse(cfg, record))

(***************************************************************************)
(* State.                                                                   *)
(***************************************************************************)
VARIABLES
    config,                 \* self.config
    pc,                     \* where the sink is
    batch_len,              \* len(records) of the batch in process_batch
    idx,                    \* records of the batch already taken
    record,                 \* the record last handed to process_record
    line_items,             \* process_record's line_items
    envelope,               \* the soap_envelope of the call in progress
    attempt_number,         \* tenacity: attempts the call has made
    attempt_outcomes,       \* how each attempt of the call ended
    waits,                  \* tenacity: the sleeps of the call
    http_response,          \* the last response session.post returned
    add_response,           \* process_record's add_response
    change_response,        \* process_record's change_response
    purchase_order_number,  \* process_record's purchase_order_number
    posts,                  \* the POSTs sent for the record last taken, in order
    outcomes                \* how process_record ended, per record

vars ==
    <<config, pc, batch_len, idx, record, line_items, envelope, attempt_number,
      attempt_outcomes, waits, http_response, add_response, change_response,
      purchase_order_number, posts, outcomes>>

\* the locals of process_record and of call_soap_service
locals ==
    <<line_items, envelope, attempt_number, attempt_outcomes, waits,
      http_response, add_response, change_response, purchase_order_number>>

NoEnvelope == [service |-> "none"]

\* the frame of a call_soap_service that has not started
CallCleared ==
    /\ attempt_number' = 0
    /\ attempt_outcomes' = <<>>
    /\ waits' = <<>>
    /\ http_response' = NoResponse

\* the frame of a process_record that has not started
LocalsCleared ==
    /\ line_items' = None
    /\ envelope' = NoEnvelope
    /\ add_response' = None
    /\ change_response' = None
    /\ purchase_order_number' = None
    /\ CallCleared

\* the sink after construction with a configuration
Init ==
    /\ config \in Configs
    /\ pc = "idle"
    /\ batch_len = 0
    /\ idx = 0
    /\ record = None
    /\ line_items = None
    /\ envelope = NoEnvelope
    /\ attempt_number = 0
    /\ attempt_outcomes = <<>>
    /\ waits = <<>>
    /\ http_response = NoResponse
    /\ add_response = None
    /\ change_response = None
    /\ purchase_order_number = None
    /\ posts = <<>>
    /\ outcomes = <<>>

Outcome(result, stage) == [result |-> result, stage |-> stage]

\* the except clause of process_record: log and re-raise; process_batch has
\* no handler, so the exception leaves it
\* the failure is logged and the loop takes the same record again
reraise_retry_record(stage) ==
    /\ outcomes' = Append(outcomes, Outcome("raised", stage))
    /\ pc' = "loop"
    /\ idx' = idx

\* the failure is logged and swallowed, and the loop goes on to the next
\* record
reraise_swallowed(stage) ==
    /\ outcomes' = Append(outcomes, Outcome("raised", stage))
    /\ pc' = "loop"
    /\ idx' = idx + 1

reraise(stage) ==
    /\ outcomes' = Append(outcomes, Outcome("raised", stage))
    /\ pc' = "batch_raised"
    /\ idx' = idx + 1

\* process_batch(records) is called: the batch has batch_len records; each
\* is drawn when the loop reaches it
ProcessBatch ==
    /\ pc = "idle"
    /\ \E n \in 0..MaxBatch : batch_len' = n
    /\ pc' = "loop"
    /\ UNCHANGED <<config, idx, record, locals, posts, outcomes>>

\* the loop of process_batch is over
BatchReturns ==
    /\ pc = "loop"
    /\ idx = batch_len
    /\ pc' = "batch_returned"
    /\ UNCHANGED <<config, batch_len, idx, record, locals, posts, outcomes>>

\* process_record(record), lines 215-258: up to the call of
\* AddOrderedPurchase
StartRecord ==
    /\ pc = "loop"
    /\ idx < batch_len
    /\ \E has_wh \in BOOLEAN, wh \in WarehouseValues, has_li \in BOOLEAN,
          li \in LineItemsValues :
        LET r == Record(has_wh, wh, has_li, li, FALSE, None)
            v == validate(config, r)
        IN  /\ has_wh \/ wh = Str(<<>>)
            /\ has_li \/ li = List(<<>>)
            /\ record' = r
            /\ posts' = <<>>
            /\ \/ /\ v \in {"raise_warehouse", "raise_json"}
                  /\ reraise(v)
                  /\ UNCHANGED <<line_items, envelope>>
               \/ /\ v = "skip"
                  /\ outcomes' = Append(outcomes, Outcome("returned", "skip"))
                  /\ idx' = idx + 1
                  /\ pc' = "loop"
                  /\ UNCHANGED <<line_items, envelope>>
               \/ /\ v = "call"
                  /\ line_items' = parse_line_items(r)
                  /\ envelope' = add_envelope_of(config, r)
                  /\ pc' = "call"
                  /\ UNCHANGED <<idx, outcomes>>
    /\ UNCHANGED <<config, batch_len, attempt_number, attempt_outcomes, waits,
                   http_response, add_response, change_response,
                   purchase_order_number>>

(***************************************************************************)
(* SherpaClient.call_soap_service under @retry: one action per attempt.     *)
(***************************************************************************)
Post(returned, processed) ==
    [record |-> idx + 1, service |-> envelope.service, returned |-> returned,
     processed |-> processed]

\* how an attempt that raised is named: "net" (session.post raised: a
\* connection error, a timeout), or the class of the status
\* raise_for_status raised on
failure_kind(status) == IF status < 500 THEN "4xx" ELSE "5xx"

FailureKinds == {"net", "4xx", "5xx"}

\* @retry is given no retry= argument: tenacity calls again after any
\* exception
retry_not_4xx(kind) == kind # "4xx"

retry(kind) == kind \in FailureKinds

\* an attempt fails: session.post raises, or raise_for_status raises on the
\* response's status.  The except clause logs and re-raises, and the
\* response is dropped with the frame; tenacity then sleeps and calls
\* again, or gives up with RetryError, which process_record re-raises.
\* When session.post raised, the request may never have reached the service
\* (no connection) or may have been carried out by it before the answer
\* was lost (timeout=self.timeout ran out): processed says which.
AttemptFails ==
    /\ pc = "call"
    /\ \E kind \in FailureKinds, processed \in BOOLEAN :
        /\ processed => kind = "net"
        /\ posts' = Append(posts, Post(FALSE, processed))
        /\ \/ kind = "net"
           \/ \E status \in Statuses :
                /\ raise_for_status_raises(status)
                /\ kind = failure_kind(status)
        /\ attempt_outcomes' = Append(attempt_outcomes, kind)
        /\ IF stop(attempt_number + 1) \/ ~retry(kind)
           THEN /\ reraise(envelope.service)
                /\ UNCHANGED waits
           ELSE /\ waits' = Append(waits, wait(attempt_number + 1))
                /\ UNCHANGED <<pc, idx, outcomes>>
    /\ http_response' = NoResponse
    /\ attempt_number' = attempt_number + 1
    /\ UNCHANGED <<config, batch_len, record, line_items, envelope, add_response,
                   change_response, purchase_order_number>>

\* an attempt returns: the response passed raise_for_status and is parsed
AttemptReturns ==
    /\ pc = "call"
    /\ \E status \in Statuses :
        /\ ~raise_for_status_raises(status)
        /\ \E r \in Answers(envelope.service, status) :
            /\ http_response' = r
            /\ IF envelope.service = "AddOrderedPurchase"
               THEN /\ add_response' = parse_soap_response(r)
                    /\ UNCHANGED change_response
               ELSE /\ change_response' = parse_soap_response(r)
                    /\ UNCHANGED add_response
    /\ attempt_outcomes' = Append(attempt_outcomes, "returned")
    /\ attempt_number' = attempt_number + 1
    /\ posts' = Append(posts, Post(TRUE, TRUE))
    /\ pc' = IF envelope.service = "AddOrderedPurchase"
             THEN "add_returned" ELSE "change_returned"
    /\ UNCHANGED <<config, batch_len, idx, record, line_items, envelope, waits,
                   purchase_order_number, outcomes>>

(***************************************************************************)
(* PurchaseOrderSink.process_record after the calls.                        *)
(***************************************************************************)
\* `if not purchase_order_number: raise`
order_number_missing_never(number) == FALSE

order_number_missing(number) == ~truthy(number)

\* lines 261-287: extract the order number, build the ChangePurchase2
\* envelope and call
AfterAdd ==
    /\ pc = "add_returned"
    /\ LET number == extract_purchase_order_number(add_response)
       IN  /\ purchase_order_number' = number
           /\ IF order_number_missing(number)
              THEN /\ reraise("extraction")
                   /\ UNCHANGED <<envelope, attempt_number, attempt_outcomes,
                                  waits, http_response>>
              ELSE IF change_envelope_raises(line_items)
              THEN /\ reraise("lines")
                   /\ UNCHANGED <<envelope, attempt_number, attempt_outcomes,
                                  waits, http_response>>
              ELSE /\ envelope' = build_change_purchase2_envelope(
                            config, number, line_items,
                            get_or(record, K_created_at, None), Now)
                   /\ CallCleared
                   /\ pc' = "call"
                   /\ UNCHANGED <<idx, outcomes>>
    /\ UNCHANGED <<config, batch_len, record, line_items, add_response,
                   change_response, posts>>

\* process_record returns, and the loop of process_batch takes the same
\* record again
AfterChange_same_record ==
    /\ pc = "change_returned"
    /\ outcomes' = Append(outcomes, Outcome("returned", "done"))
    /\ pc' = "loop"
    /\ LocalsCleared
    /\ UNCHANGED <<config, batch_len, idx, record, posts>>

\* lines 289-292: both calls returned; process_record returns
AfterChange ==
    /\ pc = "change_returned"
    /\ outcomes' = Append(outcomes, Outcome("returned", "done"))
    /\ idx' = idx + 1
    /\ pc' = "loop"
    /\ LocalsCleared
    /\ UNCHANGED <<config, batch_len, record, posts>>

Next ==
    \/ ProcessBatch
    \/ BatchReturns
    \/ StartRecord
    \/ AttemptFails
    \/ AttemptReturns
    \/ AfterAdd
    \/ AfterChange

Spec == Init /\ [][Next]_vars

\* the step process_record takes after AddOrderedPurchase returned, named
\* by its change of position alone: from add_returned the only step of Next
\* is AfterAdd, which can always be taken and always leaves add_returned
AfterAddMoves == pc = "add_returned" /\ pc' \in {"call", "batch_raised"}

\* process_record is sequential code: once it is under way the interpreter
\* runs its next statement, a time.sleep of tenacity ends, and session.post
\* returns or raises within timeout=self.timeout.  Nothing makes the
\* caller pass a batch or the loop's caller go on, so no fairness is asked
\* of ProcessBatch, StartRecord or BatchReturns.
Fairness ==
    /\ WF_vars(AttemptFails \/ AttemptReturns)
    /\ WF_pc(AfterAddMoves)
    /\ WF_vars(AfterChange)

SpecFair == Init /\ [][Next]_vars /\ Fairness

(***************************************************************************)
(* Response parsing and order-number extraction on their own: line 87 of    *)
(* call_soap_service followed by line 261 of process_record, on a response  *)
(* drawn from the shapes below.                                             *)
(***************************************************************************)
WrapperNames == {N_Response, N_Result, K_Result, <<"Data">>}

\* the wrapper elements around the result fields, outermost first
WrapperPaths ==
    {<<>>} \cup {<<a>> : a \in WrapperNames}
    \cup {<<a, b>> : a \in WrapperNames, b \in WrapperNames}

\* ResponseValue: an order number, zero, an error text, an empty element
ResponseValues == {Str(<<"6", "0">>), Str(<<"0">>), Str(<<"E", "r">>), None}

\* the bodies: the result fields inside the wrappers
ResultBodies ==
    {wrapped(path, Dict(result_fields(has_rv, rv, has_rt, Str(<<"6", "1">>), first))) :
        path \in WrapperPaths, has_rv \in BOOLEAN, rv \in ResponseValues,
        has_rt \in BOOLEAN, first \in BOOLEAN}

\* a body child that matches by tag name only
N_StatusResponse == <<"Status", "Response">>

StatusChild == Item(N_StatusResponse, Dict(<<Item(<<"Code">>, Str(<<"o", "k">>))>>))

\* body children that match by key name: one holds Result, one ResponseValue
DataChildren ==
    {Item(<<"Data">>,
          Dict(<<Item(K_Result,
                      Dict(result_fields(TRUE, Str(<<"6", "0">>), TRUE,
                                         Str(<<"6", "1">>), TRUE)))>>)),
     Item(<<"Data">>, Dict(result_fields(TRUE, Str(<<"6", "0">>), TRUE,
                                         Str(<<"6", "1">>), TRUE)))}

\* bodies of two children, in either order
TwoChildBodies ==
    {Dict(<<StatusChild, d>>) : d \in DataChildren}
    \cup {Dict(<<d, StatusChild>>) : d \in DataChildren}

\* documents with a Body element
BodyDocuments ==
    {SoapDocument(EnvelopeKeys[e], BodyKeys[b], body) :
        e \in 1..3, b \in 1..3,
        body \in ResultBodies \cup TwoChildBodies
                 \cup {None, Str(<<"o", "k">>), Str(<<"1", "2">>)}}

\* documents without one: another root, an empty or text-only envelope, an
\* envelope with a header only
BodilessDocuments ==
    {Dict(<<Item(<<"html">>, Str(<<"o", "k">>))>>),
     Dict(<<Item(<<"html">>, Str(<<"1", "2">>))>>)}
    \cup {Dict(<<Item(EnvelopeKeys[e], v)>>) :
            e \in 1..3,
            v \in {None, Str(<<"1", "2">>),
                   Dict(<<Item(<<"soap:Header">>, Str(<<"1", "2">>))>>)}}

\* payloads that are not XML: empty, text, digits
PlainTexts == {<<>>, <<"o", "k">>, <<"1", "2">>, <<"0">>}

ParseResponses ==
    {XmlResponse(200, d) : d \in BodyDocuments \cup BodilessDocuments}
    \cup {TextResponse(200, t) : t \in PlainTexts}

InitParse ==
    /\ config \in {c \in Configs : ~has_key(c, K_export_buyOrder_warehouse)}
    /\ pc = "response"
    /\ http_response \in ParseResponses
    /\ batch_len = 0
    /\ idx = 0
    /\ record = None
    /\ line_items = None
    /\ envelope = NoEnvelope
    /\ attempt_number = 0
    /\ attempt_outcomes = <<>>
    /\ waits = <<>>
    /\ add_response = None
    /\ change_response = None
    /\ purchase_order_number = None
    /\ posts = <<>>
    /\ outcomes = <<>>

\* return self._parse_soap_response(response.text, service_name)
ParseResponse ==
    /\ pc = "response"
    /\ add_response' = parse_soap_response(http_response)
    /\ pc' = "parsed"
    /\ UNCHANGED <<config, batch_len, idx, record, line_items, envelope,
                   attempt_number, attempt_outcomes, waits, http_response,
                   change_response, purchase_order_number, posts, outcomes>>

\* purchase_order_number = self._extract_purchase_order_number(add_response)
ExtractOrderNumber ==
    /\ pc = "parsed"
    /\ purchase_order_number' = extract_purchase_order_number(add_response)
    /\ pc' = "extracted"
    /\ UNCHANGED <<config, batch_len, idx, record, line_items, envelope,
                   attempt_number, attempt_outcomes, waits, http_response,
                   add_response, change_response, posts, outcomes>>

NextParse == ParseResponse \/ ExtractOrderNumber

SpecParse == InitParse /\ [][NextParse]_vars

(***************************************************************************)
(* Envelope building on its own: both builders on values drawn from texts   *)
(* over the characters XML treats specially.  One interpolated value at a   *)
(* time takes the drawn text; the others keep a plain one.                  *)
(***************************************************************************)
SpecialChars == {"&", "<", ">", "\"", "'"}

TextChars == SpecialChars \cup {"a"}

RECURSIVE TextsOfLen(_)
TextsOfLen(n) ==
    IF n = 0 THEN {<<>>}
    ELSE {<<c>> \o t : c \in TextChars, t \in TextsOfLen(n - 1)}

Texts == UNION {TextsOfLen(n) : n \in 0..MaxStrLen}

\* the values interpolated into the two envelopes
Slots ==
    {"security_code", "supplier_remoteId", "id", "warehouse_code",
     "purchase_order_number", "product_remoteId", "supplier_item_code",
     "quantity", "created_at"}

slot_text(slot, text, here) == IF slot = here THEN text ELSE <<"a">>

InitEnvelope ==
    /\ pc = "build"
    /\ \E slot \in Slots, text \in Texts :
        /\ config = Dict(<<Item(K_security_code,
                                Str(slot_text(slot, text, "security_code")))>>)
        /\ record =
              Dict(<<Item(K_supplier_remoteId,
                          Str(slot_text(slot, text, "supplier_remoteId"))),
                     Item(K_id, Str(slot_text(slot, text, "id"))),
                     Item(K_warehouse_code,
                          Str(slot_text(slot, text, "warehouse_code"))),
                     \* a created_at that is no string is interpolated as it is
                     Item(K_created_at,
                          Obj(slot_text(slot, text, "created_at")))>>)
        /\ purchase_order_number = Str(slot_text(slot, text, "purchase_order_number"))
        /\ line_items =
              List(<<Dict(<<Item(K_product_remoteId,
                                 Str(slot_text(slot, text, "product_remoteId"))),
                            Item(K_quantity, Num(5))>>),
                     Dict(<<Item(K_product_remoteId, Str(<<"a">>)),
                            Item(K_supplier_item_code,
                                 Str(slot_text(slot, text, "supplier_item_code"))),
                            Item(K_quantity,
                                 Str(slot_text(slot, text, "quantity")))>>)>>)
    /\ batch_len = 0
    /\ idx = 0
    /\ envelope = NoEnvelope
    /\ attempt_number = 0
    /\ attempt_outcomes = <<>>
    /\ waits = <<>>
    /\ http_response = NoResponse
    /\ add_response = None
    /\ change_response = None
    /\ posts = <<>>
    /\ outcomes = <<>>

\* add_envelope = self._build_add_ordered_purchase_envelope(...)
BuildAdd ==
    /\ pc = "build"
    /\ envelope' = build_add_ordered_purchase_envelope(
            config, get(record, K_supplier_remoteId),
            Str(str_value(get(record, K_id))), get(record, K_warehouse_code))
    /\ pc' = "add_built"
    /\ UNCHANGED <<config, batch_len, idx, record, line_items, attempt_number,
                   attempt_outcomes, waits, http_response, add_response,
                   change_response, purchase_order_number, posts, outcomes>>

\* change_envelope = self._build_change_purchase2_envelope(...)
BuildChange ==
    /\ pc \in {"build", "add_built"}
    /\ envelope' = build_change_purchase2_envelope(
            config, purchase_order_number, line_items,
            get_or(record, K_created_at, None), Now)
    /\ pc' = "change_built"
    /\ UNCHANGED <<config, batch_len, idx, record, line_items, attempt_number,
                   attempt_outcomes, waits, http_response, add_response,
                   change_response, purchase_order_number, posts, outcomes>>

NextEnvelope == BuildAdd \/ BuildChange

SpecEnvelope == InitEnvelope /\ [][NextEnvelope]_vars

(***************************************************************************)
(* The expected date on its own: _build_change_purchase2_envelope on a      *)
(* record whose created_at is drawn from timestamps built from the parts    *)
(* below, from other text, and from values that are no text.                *)
(***************************************************************************)
\* dates: two valid ones (one a leap day) and two no calendar holds
ValidDateTexts ==
    {<<"2", "0", "2", "5", "-", "1", "1", "-", "2", "8">>,
     <<"2", "0", "2", "4", "-", "0", "2", "-", "2", "9">>}

DateTexts ==
    ValidDateTexts
    \cup {<<"2", "0", "2", "5", "-", "0", "2", "-", "3", "0">>,
          <<"2", "0", "2", "5", "-", "1", "3", "-", "0", "1">>}

\* times of day: two valid ones and one no clock holds
ValidTimeTexts ==
    {<<"0", "0", ":", "0", "0", ":", "0", "0">>,
     <<"2", "3", ":", "5", "9", ":", "5", "8">>}

TimeTexts == ValidTimeTexts \cup {<<"2", "4", ":", "0", "0", ":", "0", "0">>}

\* fractional seconds of one to six digits, with the point
FractionTexts ==
    {<<".", "5">>, <<".", "1", "2">>, <<".", "1", "2", "3">>,
     <<".", "1", "2", "3", "4">>, <<".", "0", "0", "7", "4", "5">>,
     <<".", "9", "8", "7", "6", "5", "4">>}

\* Z, +HH:MM, -HH:MM or no offset
OffsetTexts ==
    {<<>>, <<"Z">>, <<"+", "0", "2", ":", "0", "0">>,
     <<"-", "0", "5", ":", "3", "0">>}

\* what may follow a timestamp: nothing, or text that belongs to none
TrailingTexts == {<<>>, <<"x">>}

timestamp(d, t, f, o, g) == d \o <<"T">> \o t \o f \o o \o g

\* the valid timestamps with fractional seconds
ValidTimestamps ==
    {timestamp(d, t, f, o, <<>>) :
        d \in ValidDateTexts, t \in ValidTimeTexts, f \in FractionTexts,
        o \in OffsetTexts}

\* the texts a record carries as created_at
CreatedAtTexts ==
    {timestamp(d, t, f, o, g) :
        d \in DateTexts, t \in TimeTexts, f \in FractionTexts \cup {<<>>},
        o \in OffsetTexts, g \in TrailingTexts}
    \cup ValidDateTexts
    \cup {<<"s", "o", "o", "n">>, <<>>}

\* created_at: a text, null, or a number
CreatedAtValues ==
    {Str(t) : t \in CreatedAtTexts} \cup {None, Num(0), Num(5)}

InitDate ==
    /\ pc = "date"
    /\ config = Dict(<<Item(K_security_code, Str(<<"k">>))>>)
    /\ \E has_created \in BOOLEAN, created \in CreatedAtValues :
        /\ has_created \/ created = None
        /\ record = Record(TRUE, Str(<<"W">>), TRUE, List(LinesUpTo(MaxLines)),
                           has_created, created)
    /\ line_items = List(LinesUpTo(MaxLines))
    /\ purchase_order_number = Str(<<"6", "0">>)
    /\ batch_len = 0
    /\ idx = 0
    /\ envelope = NoEnvelope
    /\ attempt_number = 0
    /\ attempt_outcomes = <<>>
    /\ waits = <<>>
    /\ http_response = NoResponse
    /\ add_response = None
    /\ change_response = None
    /\ posts = <<>>
    /\ outcomes = <<>>

\* change_envelope = self._build_change_purchase2_envelope(...), at some
\* instant datetime.now()
BuildChangeAt ==
    /\ pc = "date"
    /\ \E now \in Instants :
        envelope' = build_change_purchase2_envelope(
            config, purchase_order_number, line_items,
            get_or(record, K_created_at, None), now)
    /\ pc' = "date_built"
    /\ UNCHANGED <<config, batch_len, idx, record, line_items, attempt_number,
                   attempt_outcomes, waits, http_response, add_response,
                   change_response, purchase_order_number, posts, outcomes>>

NextDate == BuildChangeAt

SpecDate == InitDate /\ [][NextDate]_vars

(***************************************************************************)
(* Properties of the workflow (Spec).                                       *)
(***************************************************************************)
AddService == "AddOrderedPurchase"
ChangeService == "ChangePurchase2"

\* the POSTs of record r to a service, as positions in posts
posts_of(r, service) ==
    {i \in 1..Len(posts) : posts[i].record = r /\ posts[i].service = service}

\* those that call_soap_service returned from
returned_posts_of(r, service) == {i \in posts_of(r, service) : posts[i].returned}

\* process_record has ended for the record last taken
record_ended ==
    /\ pc \in {"loop", "batch_returned", "batch_raised"}
    /\ record # None
    /\ Len(outcomes) = idx

\* the five entity references of XML
Entities ==
    {<<"&", "a", "m", "p", ";">>, <<"&", "l", "t", ";">>, <<"&", "g", "t", ";">>,
     <<"&", "q", "u", "o", "t", ";">>, <<"&", "a", "p", "o", "s", ";">>}

entity_at(s, i) ==
    \E e \in Entities : i + Len(e) - 1 <= Len(s) /\ SubSeq(s, i, i + Len(e) - 1) = e

\* the character an entity reference stands for
entity_char(e) ==
    CASE e = <<"&", "a", "m", "p", ";">> -> "&"
      [] e = <<"&", "l", "t", ";">> -> "<"
      [] e = <<"&", "g", "t", ";">> -> ">"
      [] e = <<"&", "q", "u", "o", "t", ";">> -> "\""
      [] OTHER -> "'"

\* what an XML reader takes the content of an element to be
RECURSIVE element_text(_)
element_text(s) ==
    IF s = <<>> THEN <<>>
    ELSE IF entity_at(s, 1)
    THEN LET e == CHOOSE x \in Entities :
                    Len(x) <= Len(s) /\ SubSeq(s, 1, Len(x)) = x
         IN  <<entity_char(e)>> \o element_text(SubSeq(s, Len(e) + 1, Len(s)))
    ELSE <<Head(s)>> \o element_text(Tail(s))

\* C1: for a record that passed validation with a non-empty list of line
\* items, ChangePurchase2 is posted only after an AddOrderedPurchase of the
\* same record has returned and no AddOrderedPurchase follows it; the
\* ChangePurchase2 envelope is built only with a truthy order number, the
\* one extracted from the AddOrderedPurchase response, carries exactly that
\* number, and carries one ChangePurchaseLine per input line item, in
\* input order.
C1_CreateThenAmend ==
    /\ \A i \in 1..Len(posts) :
        posts[i].service = ChangeService =>
            \E j \in 1..(i - 1) :
                /\ posts[j].record = posts[i].record
                /\ posts[j].service = AddService
                /\ posts[j].returned
                /\ \A k \in (j + 1)..i : posts[k].service = ChangeService
    /\ (pc = "call" /\ envelope.service = ChangeService) =>
        LET input == parse_line_items(record).items
        IN  /\ returned_posts_of(idx + 1, AddService) # {}
            /\ truthy(purchase_order_number)
            /\ purchase_order_number = extract_purchase_order_number(add_response)
            /\ element_text(envelope.purchaseOrderNumber)
                 = str_value(purchase_order_number)
            /\ Len(input) > 0
            /\ Len(envelope.purchaseLines) = Len(input)
            /\ \A i \in 1..Len(input) :
                /\ element_text(envelope.purchaseLines[i].ItemCode)
                     = str_value(get(input[i].v, K_product_remoteId))
                /\ element_text(envelope.purchaseLines[i].QuantityOrdered)
                     = str_value(get(input[i].v, K_quantity))

\* a ChangePurchase2 envelope with two lines is about to be posted
C1_Witness ==
    /\ pc = "call"
    /\ envelope.service = ChangeService
    /\ Len(envelope.purchaseLines) = 2
    /\ envelope.purchaseLines[1].ItemCode # envelope.purchaseLines[2].ItemCode

\* an attempt that did not return
failed_attempt(kind) == kind \in FailureKinds

\* C2: a call whose attempts all fail with a connection error or timeout
\* makes exactly three attempts and then raises, and the record's
\* processing raises with it; a call whose first attempt fails and whose
\* second returns has returned the parsed response after two attempts and
\* makes no third.
C2_RetryBudget ==
    /\ Len(attempt_outcomes) <= StopAfterAttempt
    /\ attempt_number = Len(attempt_outcomes)
    /\ (Len(attempt_outcomes) = StopAfterAttempt
        /\ \A i \in 1..StopAfterAttempt : attempt_outcomes[i] = "net") =>
            /\ pc = "batch_raised"
            /\ outcomes[Len(outcomes)] = Outcome("raised", envelope.service)
            /\ Cardinality(posts_of(idx, envelope.service)) = StopAfterAttempt
            /\ returned_posts_of(idx, envelope.service) = {}
    /\ (Len(attempt_outcomes) >= 2
        /\ failed_attempt(attempt_outcomes[1])
        /\ attempt_outcomes[2] = "returned") =>
            /\ Len(attempt_outcomes) = 2
            /\ pc # "call"
            /\ posts[Len(posts)].returned
            /\ IF envelope.service = AddService
               THEN add_response = parse_soap_response(http_response)
               ELSE change_response = parse_soap_response(http_response)

\* three attempts of one call have failed with connection errors
C2_Witness ==
    /\ attempt_outcomes = <<"net", "net", "net">>
    /\ pc = "batch_raised"

\* a 2xx status
status_2xx(status) == status >= 200 /\ status < 300

\* C3: process_record goes on from AddOrderedPurchase to ChangePurchase2,
\* and returns normally for a record with line items, only when the call
\* just made completed successfully, that is, was answered with a 2xx
\* status; it never returns normally for such a record from anywhere but
\* the return of ChangePurchase2.
C3_NoSilentPartialSuccess ==
    [][/\ (pc = "add_returned" /\ pc' = "call") => status_2xx(http_response.status)
       /\ (Len(outcomes') > Len(outcomes)
           /\ outcomes'[Len(outcomes')].result = "returned"
           /\ outcomes'[Len(outcomes')].stage # "skip") =>
              /\ pc = "change_returned"
              /\ status_2xx(http_response.status)]_vars

\* ChangePurchase2 has returned on a response with status 304, after an
\* AddOrderedPurchase that gave an order number: process_record is about to
\* return normally
C3_Witness ==
    /\ pc = "change_returned"
    /\ ~status_2xx(http_response.status)
    /\ truthy(purchase_order_number)

\* AddOrderedPurchase has returned for the record in hand and its response
\* holds no order number
extraction_failed ==
    /\ pc # "add_returned"
    /\ add_response # None
    /\ ~truthy(extract_purchase_order_number(add_response))

\* C4: when the AddOrderedPurchase response holds no order number, the
\* record's processing raises, no ChangePurchase2 is posted for the record,
\* and the AddOrderedPurchase that returned is the record's last POST.
C4_ExtractionFailure ==
    extraction_failed =>
        /\ pc = "batch_raised"
        /\ outcomes[idx].result = "raised"
        /\ posts_of(idx, ChangeService) = {}
        /\ Cardinality(returned_posts_of(idx, AddService)) = 1
        /\ posts[Len(posts)].record = idx
        /\ posts[Len(posts)].returned

\* the record's processing has ended on a response of the documented shape
\* whose ResponseValue is empty
C4_Witness ==
    /\ extraction_failed
    /\ pc = "batch_raised"
    /\ ~has_key(add_response, K_raw_response)

\* the warehouse of the record resolves: its own, or the configured default
warehouse_given(cfg, r) ==
    \/ has_key(r, K_warehouse_code) /\ get(r, K_warehouse_code) # Str(<<>>)
    \/ has_key(cfg, K_export_buyOrder_warehouse)
       /\ get(cfg, K_export_buyOrder_warehouse) # Str(<<>>)

\* the record's line_items is an empty list, literal or as JSON text
empty_line_items(r) ==
    \/ ~has_key(r, K_line_items)
    \/ get(r, K_line_items) \in {List(<<>>), JsonStr(List(<<>>))}

\* C5: a record with a resolved warehouse and an empty list of line items
\* (absent, a literal empty list, or JSON text decoding to one) is skipped:
\* its processing returns without raising and posts nothing.
C5_EmptySkipped ==
    (record # None /\ warehouse_given(config, record) /\ empty_line_items(record)) =>
        /\ record_ended
        /\ pc # "batch_raised"
        /\ outcomes[idx].result = "returned"
        /\ \A i \in 1..Len(posts) : posts[i].record # idx

\* a record whose line_items is the JSON text of an empty list has been
\* processed
C5_Witness ==
    /\ record_ended
    /\ warehouse_given(config, record)
    /\ has_key(record, K_line_items)
    /\ get(record, K_line_items) = JsonStr(List(<<>>))

\* C6: a record with no warehouse_code (absent or empty), under a
\* configuration with no export_buyOrder_warehouse, ends with the exception
\* raised before any POST for the record.
C6_MissingWarehouse ==
    (record # None /\ ~warehouse_given(config, record)) =>
        /\ record_ended
        /\ pc = "batch_raised"
        /\ outcomes[idx].result = "raised"
        /\ \A i \in 1..Len(posts) : posts[i].record # idx

\* a record with an empty warehouse_code and line items has been processed
\* under a configuration without a default
C6_Witness ==
    /\ record_ended
    /\ ~has_key(config, K_export_buyOrder_warehouse)
    /\ has_key(record, K_warehouse_code)
    /\ get(record, K_warehouse_code) = Str(<<>>)
    /\ truthy(parse_line_items(record))

\* C9: call_soap_service returns only on a response with a 2xx status.
C9_ReturnsOnly2xx ==
    pc \in {"add_returned", "change_returned"} => status_2xx(http_response.status)

\* AddOrderedPurchase has returned the parsed body of a response with
\* status 304
C9_Witness ==
    /\ pc = "add_returned"
    /\ http_response.status = 304
    /\ add_response = parse_soap_response(http_response)
    /\ attempt_outcomes = <<"returned">>

(***************************************************************************)
(* Properties of parsing and extraction (SpecParse).                        *)
(***************************************************************************)
numeric(v) == v.t = "str" /\ isdigit(v.s)

\* a mapping with a numeric ResponseValue and a numeric ResponseTime
has_both(v) ==
    /\ v.t = "dict"
    /\ has_key(v, K_ResponseValue) /\ numeric(get(v, K_ResponseValue))
    /\ has_key(v, K_ResponseTime) /\ numeric(get(v, K_ResponseTime))

\* the ResponseValue of every such mapping at or inside v
RECURSIVE sibling_values(_)
sibling_values(v) ==
    IF v.t # "dict" THEN {}
    ELSE (IF has_both(v) THEN {get(v, K_ResponseValue).s} ELSE {})
         \cup UNION {sibling_values(v.items[i].v) : i \in 1..Len(v.items)}

\* the Body element of the response, None when it has none
body_of(response) ==
    IF response.xml.t # "dict" THEN None
    ELSE LET soap_body == find_soap_body(response.xml, 1)
         IN  IF soap_body.t = "error" THEN None ELSE soap_body

\* the ResponseValue of the sibling fields inside a wrapper element of the
\* body
wrapped_sibling_values(response) ==
    LET soap_body == body_of(response)
    IN  IF soap_body.t # "dict" THEN {}
        ELSE UNION {sibling_values(soap_body.items[i].v) :
                        i \in 1..Len(soap_body.items)}

\* C7: for a response whose body holds, inside a wrapper element, a numeric
\* ResponseValue and a numeric ResponseTime as siblings, the order number
\* extracted from the parsed response is that ResponseValue.
C7_ResponseValueWins ==
    (pc = "extracted" /\ wrapped_sibling_values(http_response) # {}) =>
        /\ purchase_order_number.t = "str"
        /\ purchase_order_number.s \in wrapped_sibling_values(http_response)

\* the two fields sit directly in one wrapper element of the body: the
\* parser hands on the ResponseValue text itself, and nothing is extracted
C7_Witness ==
    /\ pc = "extracted"
    /\ wrapped_sibling_values(http_response) = {<<"6", "0">>}
    /\ add_response = Str(<<"6", "0">>)
    /\ purchase_order_number = None

\* C8: for a response with no Body element under any alias, parsing gives
\* the no-body result holding the raw payload and extraction gives None.
C8_NoBodyNotFound ==
    (pc = "extracted" /\ body_of(http_response) = None) =>
        /\ add_response = raw_result(http_response.text)
        /\ purchase_order_number = None

\* a payload that is all digits and no XML is taken for the order number
C8_Witness ==
    /\ pc = "extracted"
    /\ http_response.text = <<"1", "2">>
    /\ body_of(http_response) = None
    /\ add_response = raw_result(<<"1", "2">>)
    /\ purchase_order_number = Str(<<"1", "2">>)

(***************************************************************************)
(* Properties of the envelopes (SpecEnvelope).                              *)
(***************************************************************************)
\* the pairs <<value given, element text>> of a line of the envelope
line_texts(line, xml, created_at) ==
    {<<str_value(get_or(line, K_product_remoteId, Str(<<>>))), xml.ItemCode>>,
     <<str_value(get_or(line, K_supplier_item_code,
                        get_or(line, K_product_remoteId, Str(<<>>)))),
       xml.SupplierItemCode>>,
     <<str_value(get_or(line, K_quantity, Num(0))), xml.QuantityOrdered>>,
     <<str_value(created_at), xml.ExpectedDate>>}

\* the pairs <<value given, element text>> of the envelope just built
interpolated ==
    IF envelope.service = AddService
    THEN {<<str_value(get(config, K_security_code)), envelope.securityCode>>,
          <<str_value(get(record, K_supplier_remoteId)), envelope.supplierCode>>,
          <<str_value(get(record, K_id)), envelope.reference>>,
          <<str_value(get(record, K_warehouse_code)), envelope.warehouseCode>>}
    ELSE IF envelope.service = ChangeService
    THEN {<<str_value(get(config, K_security_code)), envelope.securityCode>>,
          <<str_value(purchase_order_number), envelope.purchaseOrderNumber>>}
         \cup UNION {line_texts(line_items.items[i].v, envelope.purchaseLines[i],
                                get(record, K_created_at)) :
                        i \in 1..Len(envelope.purchaseLines)}
    ELSE {}

\* every occurrence in s of a character of chars is the & of an entity
\* reference
no_unescaped(s, chars) ==
    \A i \in 1..Len(s) : s[i] \in chars => (s[i] = "&" /\ entity_at(s, i))

occurrences(s, c) == Cardinality({i \in 1..Len(s) : s[i] = c})

\* C10 as stated: no element text of either envelope holds an unescaped
\* & < > " or '.
C10_FiveEscaped ==
    \A pair \in interpolated : no_unescaped(pair[2], SpecialChars)

\* C10: no element text of either envelope holds an unescaped & < or >;
\* each of them is replaced by its entity reference and every other
\* character, the quotation marks included, is interpolated as it is, so
\* the element reads back as the value given.
C10_MarkupEscaped ==
    \A pair \in interpolated :
        /\ no_unescaped(pair[2], {"&", "<", ">"})
        /\ element_text(pair[2]) = pair[1]
        /\ Len(pair[2]) = Len(pair[1]) + 4 * occurrences(pair[1], "&")
                            + 3 * occurrences(pair[1], "<")
                            + 3 * occurrences(pair[1], ">")
        /\ \A c \in {"\"", "'"} : occurrences(pair[2], c) = occurrences(pair[1], c)

\* a ChangePurchase2 envelope built from an order number that is "<&"
C10_Witness ==
    /\ pc = "change_built"
    /\ purchase_order_number = Str(<<"<", "&">>)
    /\ envelope.purchaseOrderNumber = <<"&", "l", "t", ";", "&", "a", "m", "p", ";">>

(***************************************************************************)
(* Properties of the expected date (SpecDate).                              *)
(***************************************************************************)
\* the parseable ISO-8601 timestamps among the texts drawn
ParseableTexts ==
    {timestamp(d, t, f, o, <<>>) :
        d \in ValidDateTexts, t \in ValidTimeTexts,
        f \in FractionTexts \cup {<<>>}, o \in OffsetTexts}
    \cup ValidDateTexts

parseable(v) == v.t = "str" /\ v.s \in ParseableTexts

\* the ExpectedDate elements of the envelope, as read back
expected_dates ==
    {element_text(envelope.purchaseLines[i].ExpectedDate) :
        i \in 1..Len(envelope.purchaseLines)}

\* thirty days after each of the Instants, in the form
\* YYYY-MM-DDTHH:MM:SS.mmm
FallbackDates ==
    {<<"2", "0", "2", "6", "-", "1", "2", "-", "0", "3", "T", "0", "4",
       ":", "1", "4", ":", "0", "9", ".", "0", "0", "0">>,
     <<"2", "0", "2", "8", "-", "0", "1", "-", "3", "0", "T", "2", "3",
       ":", "5", "9", ":", "5", "9", ".", "0", "0", "0">>}

\* C11: when created_at is absent or is no parseable ISO-8601 timestamp (a
\* timestamp followed by other text and a value that is no text included),
\* every line's ExpectedDate is now + 30 days.
C11_DateFallback ==
    (pc = "date_built" /\ ~parseable(get_or(record, K_created_at, None))) =>
        /\ Len(envelope.purchaseLines) = Len(line_items.items)
        /\ \E d \in FallbackDates : expected_dates = {d}

\* a timestamp followed by other text has been taken for the expected date
C11_Witness ==
    /\ pc = "date_built"
    /\ get_or(record, K_created_at, None)
         = Str(<<"2", "0", "2", "5", "-", "1", "1", "-", "2", "8", "T",
                 "0", "0", ":", "0", "0", ":", "0", "0", ".", "1", "2",
                 "3", "Z", "x">>)
    /\ expected_dates
         = {<<"2", "0", "2", "5", "-", "1", "1", "-", "2", "8", "T", "0",
              "0", ":", "0", "0", ":", "0", "0", ".", "0", "0", "0">>}

\* the fractional seconds of a valid timestamp, with the point
fraction_of(s) ==
    CHOOSE f \in FractionTexts :
        \E o \in OffsetTexts : SubSeq(s, 20, Len(s)) = f \o o

\* fractional seconds cut or zero-padded to three digits
millis(f) == SubSeq(Tail(f) \o <<"0", "0">>, 1, 3)

\* C12: for a valid timestamp with one to six fractional digits and any
\* offset or none, every line's ExpectedDate is the date and time of day
\* written in the input, followed by the input's fractional seconds cut or
\* zero-padded to three digits.
C12_DateNormalised ==
    (pc = "date_built"
     /\ get_or(record, K_created_at, None).t = "str"
     /\ get_or(record, K_created_at, None).s \in ValidTimestamps) =>
        LET s == get_or(record, K_created_at, None).s
        IN  expected_dates = {SubSeq(s, 1, 19) \o <<".">> \o millis(fraction_of(s))}

\* a timestamp with microseconds has lost its fractional seconds
C12_Witness ==
    /\ pc = "date_built"
    /\ get_or(record, K_created_at, None)
         = Str(<<"2", "0", "2", "5", "-", "1", "1", "-", "2", "8", "T",
                 "2", "3", ":", "5", "9", ":", "5", "8", ".", "9", "8",
                 "7", "6", "5", "4", "-", "0", "5", ":", "3", "0">>)
    /\ expected_dates
         = {<<"2", "0", "2", "5", "-", "1", "1", "-", "2", "8", "T", "2",
              "3", ":", "5", "9", ":", "5", "8", ".", "0", "0", "0">>}

(***************************************************************************)
(* Further properties of the workflow (Spec).                               *)
(***************************************************************************)
\* C13: records are taken one at a time, in input order: a POST for record
\* r is sent only while exactly the r - 1 records before it have ended, and
\* the number of ended records never decreases; so every POST of a record
\* precedes every POST of a later one.
C13_BatchOrder ==
    [][/\ idx' \in {idx, idx + 1}
       /\ Len(outcomes') >= Len(outcomes)
       /\ idx' = idx + 1 => Len(outcomes') = idx'
       /\ (posts' # posts /\ posts' # <<>>) =>
            /\ \A i \in 1..Len(posts') : posts'[i].record = idx + 1
            /\ Len(outcomes) = idx
            /\ SubSeq(posts', 1, Len(posts)) = posts]_vars

\* the second record's ChangePurchase2 is being retried after the first
\* record ended with both calls returned
C13_Witness ==
    /\ idx = 1
    /\ outcomes = <<Outcome("returned", "done")>>
    /\ pc = "call"
    /\ envelope.service = ChangeService
    /\ Cardinality(posts_of(2, ChangeService)) = 2

\* the record's line_items resolves, from a literal list or from JSON text,
\* to a non-empty list of mappings
line_items_well_formed(r) ==
    /\ has_key(r, K_line_items)
    /\ LET raw == get(r, K_line_items)
           decoded == IF is_str(raw) /\ ~json_loads_raises(raw)
                      THEN json_loads(raw) ELSE raw
       IN  /\ decoded.t = "list"
           /\ Len(decoded.items) > 0
           /\ \A i \in 1..Len(decoded.items) : decoded.items[i].v.t = "dict"

\* C14: AddOrderedPurchase is posted only for a record whose line_items
\* resolves to a non-empty list of line-item mappings.
C14_ValidationBeforeCreation ==
    posts # <<>> => line_items_well_formed(record)

\* AddOrderedPurchase has returned for a record whose line_items is the
\* JSON text of an object, and the record has then raised
C14_Witness ==
    /\ pc = "batch_raised"
    /\ outcomes[idx] = Outcome("raised", "lines")
    /\ line_items.t = "dict"
    /\ returned_posts_of(idx, AddService) # {}
    /\ posts_of(idx, ChangeService) = {}

\* ChangePurchase2 has run out of attempts for record r in the log p
change_exhausted(p, r) ==
    LET changes == {i \in 1..Len(p) : p[i].record = r /\ p[i].service = ChangeService}
    IN  /\ Cardinality(changes) = StopAfterAttempt
        /\ \A i \in changes : ~p[i].returned

\* C15: once AddOrderedPurchase has returned for a record, every later
\* POST of the record is a ChangePurchase2, and the record's log of POSTs
\* is closed only when the record has ended (the record is not taken
\* again); when ChangePurchase2 runs out of attempts, process_record
\* raises and nothing more is posted.
C15_NoRetryAcrossCalls ==
    [][/\ posts' # posts =>
            \/ /\ posts' = <<>>
               /\ \A i \in 1..Len(posts) : posts[i].record = idx
               /\ Len(outcomes) = idx
            \/ /\ Len(posts') = Len(posts) + 1
               /\ SubSeq(posts', 1, Len(posts)) = posts
               /\ posts'[Len(posts')].record = idx + 1
               /\ returned_posts_of(idx + 1, AddService) # {} =>
                    posts'[Len(posts')].service = ChangeService
       /\ (posts' # posts /\ change_exhausted(posts', idx + 1)) =>
            /\ pc' = "batch_raised"
            /\ outcomes'[Len(outcomes')] = Outcome("raised", ChangeService)
       /\ pc = "batch_raised" => posts' = posts]_vars

\* ChangePurchase2 has run out of attempts after AddOrderedPurchase
\* returned at its second attempt
C15_Witness ==
    /\ pc = "batch_raised"
    /\ change_exhausted(posts, idx)
    /\ Cardinality(posts_of(idx, AddService)) = 2
    /\ Cardinality(returned_posts_of(idx, AddService)) = 1
    /\ Len(posts) = 5

(***************************************************************************)
(* Further properties of parsing and extraction (SpecParse).                *)
(***************************************************************************)
\* the child is a mapping holding Result or ResponseValue
matches_by_key(child) ==
    child.v.t = "dict" /\ (has_key(child.v, K_Result) \/ has_key(child.v, K_ResponseValue))

\* what such a child gives as the answer payload
key_payload(child) ==
    IF has_key(child.v, K_Result) THEN get(child.v, K_Result)
    ELSE get(child.v, K_ResponseValue)

\* the payloads of the body children that match by key name
key_payloads(response) ==
    LET soap_body == body_of(response)
    IN  IF soap_body.t # "dict" THEN {}
        ELSE {key_payload(soap_body.items[i]) :
                i \in {j \in 1..Len(soap_body.items) :
                        /\ matches_by_key(soap_body.items[j])
                        /\ truthy(key_payload(soap_body.items[j]))}}

\* C16: when a body child matches by key name (it holds Result or
\* ResponseValue), the parsed response is the payload of such a child,
\* wherever a child that matches by tag name only stands.
C16_KeyMatchPreferred ==
    (pc \in {"parsed", "extracted"} /\ key_payloads(http_response) # {}) =>
        add_response \in key_payloads(http_response)

\* a StatusResponse child standing before the child that holds Result has
\* been returned as the payload
C16_Witness ==
    /\ pc = "parsed"
    /\ key_payloads(http_response) # {}
    /\ add_response = StatusChild.v

(***************************************************************************)
(* Properties of the order number and of the retry policy (Spec).           *)
(***************************************************************************)
\* C17: the order number carried by a ChangePurchase2 envelope is a
\* non-empty text of digits only.
C17_OrderNumberDigits ==
    envelope.service = ChangeService =>
        /\ purchase_order_number.t = "str"
        /\ isdigit(purchase_order_number.s)
        /\ isdigit(element_text(envelope.purchaseOrderNumber))

\* ChangePurchase2 has been posted with the error text of the
\* AddOrderedPurchase response as its order number
C17_Witness ==
    /\ envelope.service = ChangeService
    /\ envelope.purchaseOrderNumber = <<"E", "r">>
    /\ returned_posts_of(idx + 1, ChangeService) # {}

\* C18: an attempt that ends in a 4xx response is followed up exactly like
\* one that ends in a 5xx response or a network failure: after a first or
\* second failed attempt, whatever its kind, the call has slept the wait of
\* that attempt and stands ready to post again; after a third it has
\* raised; never more than three attempts are made.
C18_UniformRetry ==
    /\ Len(attempt_outcomes) <= StopAfterAttempt
    /\ \A n \in 1..Len(attempt_outcomes) :
        /\ attempt_outcomes[n] \in FailureKinds \cup {"returned"}
        /\ (n < Len(attempt_outcomes) \/ pc = "call") =>
                failed_attempt(attempt_outcomes[n])
        /\ (failed_attempt(attempt_outcomes[n]) /\ n < StopAfterAttempt) =>
                /\ Len(waits) >= n
                /\ waits[n] = wait(n)
                /\ n = Len(attempt_outcomes) => pc = "call"
        /\ (failed_attempt(attempt_outcomes[n]) /\ n = StopAfterAttempt) =>
                /\ pc = "batch_raised"
                /\ outcomes[idx] = Outcome("raised", envelope.service)

\* a call is about to make its third attempt after a 4xx response and a
\* network failure
C18_Witness ==
    /\ pc = "call"
    /\ attempt_outcomes = <<"4xx", "net">>
    /\ Len(waits) = 2

\* C19: the waits between the attempts of one call are each at least 4 and
\* at most 10, the first is 4, none is smaller than the one before it,
\* and there are at most two of them.
C19_BackoffBounds ==
    /\ Len(waits) <= StopAfterAttempt - 1
    /\ \A n \in 1..Len(waits) :
        /\ waits[n] >= 4
        /\ waits[n] <= 10
        /\ n = 1 => waits[n] = 4
        /\ n > 1 => waits[n] >= waits[n - 1]

\* a call has slept twice and made its third attempt
C19_Witness ==
    /\ Len(waits) = 2
    /\ attempt_number = 3
    /\ Len(attempt_outcomes) = 3

(***************************************************************************)
(* Orders created at the service                                            *)
(***************************************************************************)

\* the AddOrderedPurchase requests of record r that the service carried out
processed_posts_of(r, service) ==
    {i \in posts_of(r, service) : posts[i].processed}

\* C20: for each record the service carries out at most one
\* AddOrderedPurchase request, so at most one purchase order is created
\* per record, also when the answer to an attempt is lost.
C20_AtMostOneOrder ==
    \A r \in 1..MaxBatch : Cardinality(processed_posts_of(r, AddService)) <= 1

\* the answer to the first AddOrderedPurchase attempt was lost after the
\* service carried the request out, and the second attempt returned
C20_Witness ==
    /\ Len(posts) >= 2
    /\ posts[1].service = AddService /\ posts[1].processed /\ ~posts[1].returned
    /\ posts[2].service = AddService /\ posts[2].returned
    /\ posts[2].record = posts[1].record

(***************************************************************************)
(* The end of a batch and of a record (Spec).                               *)
(***************************************************************************)

\* the record that has just ended, in the state after a step that ended one
last_outcome == outcomes[Len(outcomes)]

\* C21: the first record whose processing raises ends the batch: the
\* exception leaves process_batch, after which nothing more happens (no
\* record is taken, no request is posted), so every step is taken while no
\* record has raised; a record skipped for its empty line items leaves the
\* loop running with the next record.
C21_FirstRaiseEndsBatch ==
    [][/\ pc # "batch_raised"
       /\ \A i \in 1..Len(outcomes) : outcomes[i].result = "returned"
       /\ Len(outcomes') > Len(outcomes) =>
            /\ last_outcome'.result = "raised" =>
                 /\ pc' = "batch_raised"
                 /\ posts' \in {posts, <<>>} \/ ~posts'[Len(posts')].returned
            /\ last_outcome'.stage = "skip" =>
                 /\ last_outcome'.result = "returned"
                 /\ pc' = "loop"
                 /\ idx' = idx + 1
                 /\ posts' = <<>>]_vars

\* the first record of a batch of two raised after its AddOrderedPurchase
\* attempts were used up, and the second record was never taken
C21_Witness ==
    /\ pc = "batch_raised"
    /\ batch_len = 2
    /\ idx = 1
    /\ outcomes = <<Outcome("raised", AddService)>>
    /\ Cardinality(posts_of(1, AddService)) = StopAfterAttempt

\* process_record is under way for the record last taken
in_record == pc \in {"call", "add_returned", "change_returned"}

\* the POSTs of the record under way: at most three to AddOrderedPurchase,
\* then at most three to ChangePurchase2
posts_within_budget ==
    /\ Len(posts) <= 2 * StopAfterAttempt
    /\ \A r \in 1..MaxBatch :
        /\ Cardinality(posts_of(r, AddService)) <= 3
        /\ Cardinality(posts_of(r, ChangeService)) <= 3
    /\ \A i, j \in 1..Len(posts) :
        (posts[i].service = ChangeService /\ posts[j].service = AddService)
            => j < i

\* C22 (under SpecFair: every POST returns or fails within its timeout):
\* processing a record always ends, in a return or a raised error, and by
\* then at most 3 POSTs of AddOrderedPurchase followed by at most 3 POSTs of
\* ChangePurchase2 have been made for it, 6 at most.
C22_RecordTerminates ==
    /\ []posts_within_budget
    /\ in_record ~> (record_ended /\ posts_within_budget
                     /\ last_outcome.result \in {"returned", "raised"})

\* a record has ended in a raised error after six POSTs: AddOrderedPurchase
\* returned at its third attempt and ChangePurchase2 failed three times
C22_Witness ==
    /\ record_ended
    /\ pc = "batch_raised"
    /\ Len(posts) = 6
    /\ posts[3].service = AddService /\ posts[3].returned
    /\ posts[6].service = ChangeService /\ ~posts[6].returned

=============================================================================
